---- MODULE Spec2Model ----
(***************************************************************************)
(* Model of auto-opti-ML: the solver executors (src/solver), the text      *)
(* parser (src/parser/text_to_model.py) and the validator                  *)
(* (src/parser/validator.py).                                              *)
(*                                                                         *)
(* Text is a sequence of one-character strings.  Python dictionaries are   *)
(* TLA+ records / functions, so DOMAIN d is the key set of d.              *)
(***************************************************************************)
EXTENDS Integers, Sequences, FiniteSets, TLC

VARIABLES
    \* ---- solver executors (pulp_solver.py, pyomo_solver.py)
    executor,       \* the executor object the caller holds, or NoExecutor
    lastCtor,       \* the last construction attempt and how it ended
    fs,             \* temporary files that exist on the filesystem
    nextTemp,       \* next name tempfile.NamedTemporaryFile hands out
    pc,             \* position inside solve_model ("idle" = not in a call)
    frag,           \* model_code of the current / last call (its behaviour)
    temp_filename,  \* local of solve_model
    namespace,      \* local of solve_model: names bound in the exec namespace
    pending,        \* return value / exception in flight inside solve_model
    outcome,        \* what the last solve_model call gave its caller
    history,        \* what earlier calls on this executor bound and staged
    \* ---- parser (text_to_model.py)
    text,           \* argument of extract_code_blocks / parse_to_model
    parseOp,        \* which parser operation produced parseOutcome
    parseOutcome,   \* what that operation gave its caller
    \* ---- fragment selection (text_to_model.py, max(code_blocks, key=len))
    code_blocks,    \* a list of fragments
    code,           \* the fragment selected from code_blocks
    \* ---- validator (validator.py)
    model_components, \* argument of validate_model
    framework,        \* argument of validate_model
    validateOutcome   \* what validate_model gave its caller

solverVars == <<executor, lastCtor, fs, nextTemp, pc, frag, temp_filename,
                namespace, pending, outcome, history>>
parserVars == <<text, parseOp, parseOutcome>>
selectVars == <<code_blocks, code>>
validatorVars == <<model_components, framework, validateOutcome>>
vars == <<solverVars, parserVars, selectVars, validatorVars>>

\* ------------------------------------------------------------------ bounds

\* solve_model calls in one behaviour (each takes a fresh temporary file name)
MaxCalls == 2

\* ------------------------------------------------------------- common values

NoExecutor == [kind |-> "none"]
Nothing == [kind |-> "none"]
Returned(v) == [kind |-> "return", value |-> v]
Raised(type, msg) == [kind |-> "raise", exc |-> [type |-> type, msg |-> msg]]

\* str.lower() on the names the model uses
Lower(s) ==
    CASE s = "CBC" -> "cbc"
      [] s = "PYOMO" -> "pyomo"
      [] s = "Pyomo" -> "pyomo"
      [] s = "PuLP" -> "pulp"
      [] OTHER -> s

\* ---------------------------------------------------------------- executors

\* PuLPSolver.SOLVER_MAP keys
SOLVER_MAP == {"cbc", "gurobi", "glpk", "cplex"}

\* solver names a caller may pass to a constructor
SolverNames == {"CBC", "gurobi", "ipopt"}

\* what the external availability probe can do
PulpProbes == {"true", "false", "PulpSolverError"}
PyomoProbes == {"true", "false", "ApplicationError"}

\* PuLPSolver._check_solver_availability: the value available() returns is
\* dropped; only a PulpSolverError changes solver_name.
PulpCheckedName(name, probe) ==
    IF probe = "PulpSolverError" THEN "cbc" ELSE name

\* PuLPSolver.__init__
PulpInit(solver_name, probe) ==
    LET name == Lower(solver_name) IN
    IF name \notin SOLVER_MAP
    THEN [result |-> Raised("ValueError", "Solver not supported"),
          object |-> NoExecutor]
    ELSE [result |-> Nothing,
          object |-> [kind |-> "pulp",
                      solver_name |-> PulpCheckedName(name, probe)]]

\* PyomoSolver._check_solver_availability: a false probe only logs a warning;
\* an exception of the probe is not caught.
PyomoCheck(probe) ==
    IF probe = "ApplicationError"
    THEN Raised("ApplicationError", "Solver not available")
    ELSE Nothing

\* PyomoSolver.__init__
PyomoInit(solver_name, probe) ==
    LET chk == PyomoCheck(probe) IN
    IF chk.kind = "raise"
    THEN [result |-> chk, object |-> NoExecutor]
    ELSE [result |-> Nothing,
          object |-> [kind |-> "pyomo", solver_name |-> solver_name]]

\* The model follows one executor object: the caller constructs until a
\* construction succeeds, then calls solve_model on that object.
Construct(kind, solver_name, probe) ==
    /\ pc = "idle"
    /\ executor = NoExecutor
    /\ LET r == IF kind = "pulp" THEN PulpInit(solver_name, probe)
                ELSE PyomoInit(solver_name, probe) IN
       /\ lastCtor' = [kind |-> kind, solver_name |-> solver_name,
                       probe |-> probe, result |-> r.result]
       /\ executor' = IF r.result.kind = "raise" THEN executor ELSE r.object
    /\ UNCHANGED <<fs, nextTemp, pc, frag, temp_filename, namespace, pending,
                   outcome>>
    /\ UNCHANGED history
    /\ UNCHANGED <<parserVars, selectVars, validatorVars>>

ConstructPuLP ==
    \E n \in SolverNames, p \in PulpProbes : Construct("pulp", n, p)

ConstructPyomo ==
    \E n \in SolverNames, p \in PyomoProbes : Construct("pyomo", n, p)

\* ------------------------------------------------------------- solve_model

\* What a code fragment (model_code) does.  encodable: f.write(model_code)
\* succeeds (a str with a lone surrogate makes the text-mode write raise
\* UnicodeEncodeError).  deletesFile: the fragment runs os.remove(__file__).
\* bindsModel: the fragment assigns the name model.  end: how exec() of the
\* fragment ends.  solve: what solving the bound model does.  A field that
\* cannot matter (the fragment is never executed, or never solved) is fixed.
Fragments ==
    {f \in [encodable : BOOLEAN, deletesFile : BOOLEAN, bindsModel : BOOLEAN,
            end : {"completes", "Exception", "SystemExit"},
            solve : {"Optimal", "Infeasible", "raises"}] :
        /\ ~f.encodable =>
              ~f.deletesFile /\ ~f.bindsModel /\ f.end = "completes"
        /\ ~(f.end = "completes" /\ f.bindsModel) => f.solve = "raises"}

\* except Exception: SystemExit derives from BaseException only
IsException(type) == type # "SystemExit"

\* the namespace dict solve_model builds before exec
SeedNamespace(kind) ==
    IF kind = "pulp"
    THEN {"pl", "__file__", "LpProblem", "LpVariable", "LpMaximize",
          "LpMinimize"}
    ELSE {"pyo", "__file__"}

\* the dict the except clause returns
ErrorRecord(e) == [status |-> "error", message |-> e.msg]

\* PuLPSolver._process_results on the solved sample model (variables x1, x2,
\* one constraint c1)
PulpProcessResults(self, status) ==
    [status |-> status,
     objective_value |-> IF status = "Optimal" THEN 1 ELSE 0,
     variables |-> [v \in {"x1", "x2"} |->
                      [value |-> 0, lower_bound |-> 0, upper_bound |-> "None",
                       category |-> "Continuous"]],
     constraints |-> [c \in {"c1"} |->
                        [sense |-> "<=", rhs |-> 0, expression |-> "c1"]],
     solver_used |-> self.solver_name]

\* PyomoSolver._process_results
PyomoProcessResults(self, status) ==
    [status |-> IF status = "Optimal" THEN "ok" ELSE "warning",
     termination_condition |-> IF status = "Optimal" THEN "optimal"
                               ELSE "infeasible",
     objective_value |-> "None",
     variables |-> <<>>,
     constraints |-> <<>>,
     solver_time |-> 0]

\* the names a fragment added to the namespace it was executed in
NamesBoundBy(kind, ns) == ns \ SeedNamespace(kind)

\* with tempfile.NamedTemporaryFile(suffix='.py', delete=False, mode='w').
\* history records what the calls before this one left behind: it is read by
\* no operation.
StartSolveModel(model_code) ==
    /\ pc = "idle"
    /\ executor.kind # "none"
    /\ nextTemp <= MaxCalls
    /\ frag' = model_code
    /\ temp_filename' = nextTemp
    /\ nextTemp' = nextTemp + 1
    /\ fs' = fs \cup {nextTemp}
    /\ pending' = Nothing
    /\ pc' = "write"
    /\ history' = [names |-> history.names \cup NamesBoundBy(executor.kind,
                                                             namespace),
                   files |-> history.files \cup ({temp_filename} \ {0})]
    /\ UNCHANGED <<executor, lastCtor, namespace, outcome>>
    /\ UNCHANGED <<parserVars, selectVars, validatorVars>>

\* f.write(model_code); the with block closes the file and keeps it
\* (delete=False).  A failing write leaves solve_model before its try.
WriteFragment ==
    /\ pc = "write"
    /\ IF frag.encodable
       THEN /\ pc' = "exec"
            /\ UNCHANGED outcome
       ELSE /\ pc' = "idle"
            /\ outcome' = Raised("UnicodeEncodeError", "surrogates not allowed")
    /\ UNCHANGED <<executor, lastCtor, fs, nextTemp, frag, temp_filename,
                   namespace, pending>>
    /\ UNCHANGED history
    /\ UNCHANGED <<parserVars, selectVars, validatorVars>>

\* where control goes when exception e is raised inside the try block
HandlerFor(e) == IF IsException(e.exc.type) THEN "except" ELSE "finally"

\* what exec(model_code, namespace) raises, if anything
ExecRaises(model_code) ==
    CASE model_code.end = "Exception" -> Raised("Exception", "fragment failed")
      [] model_code.end = "SystemExit" -> Raised("SystemExit", "")
      [] OTHER -> Nothing

\* namespace = {...}; exec(model_code, namespace)
ExecFragment ==
    /\ pc = "exec"
    /\ namespace' = SeedNamespace(executor.kind)
                      \cup (IF frag.bindsModel THEN {"model"} ELSE {})
    /\ fs' = IF frag.deletesFile THEN fs \ {temp_filename} ELSE fs
    /\ LET e == ExecRaises(frag) IN
       IF e.kind = "raise"
       THEN /\ pc' = HandlerFor(e)
            /\ pending' = e
       ELSE /\ pc' = "check"
            /\ UNCHANGED pending
    /\ UNCHANGED <<executor, lastCtor, nextTemp, frag, temp_filename, outcome>>
    /\ UNCHANGED history
    /\ UNCHANGED <<parserVars, selectVars, validatorVars>>

\* if 'model' not in namespace: raise ValueError(...)
CheckModel ==
    /\ pc = "check"
    /\ IF "model" \notin namespace
       THEN /\ pc' = "except"
            /\ pending' = Raised("ValueError",
                                 "Model code did not create a 'model' variable")
       ELSE /\ pc' = "solve"
            /\ UNCHANGED pending
    /\ UNCHANGED <<executor, lastCtor, fs, nextTemp, frag, temp_filename,
                   namespace, outcome>>
    /\ UNCHANGED history
    /\ UNCHANGED <<parserVars, selectVars, validatorVars>>

\* model.solve(solver) / solver.solve(model), then _process_results
SolveAndProcess ==
    /\ pc = "solve"
    /\ IF frag.solve = "raises"
       THEN /\ pc' = "except"
            /\ pending' = Raised("Exception", "solver failed")
       ELSE /\ pc' = "finally"
            /\ pending' = Returned(IF executor.kind = "pulp"
                                   THEN PulpProcessResults(executor, frag.solve)
                                   ELSE PyomoProcessResults(executor, frag.solve))
    /\ UNCHANGED <<executor, lastCtor, fs, nextTemp, frag, temp_filename,
                   namespace, outcome>>
    /\ UNCHANGED history
    /\ UNCHANGED <<parserVars, selectVars, validatorVars>>

\* except Exception as e: return {"status": "error", "message": str(e)}
ExceptClause ==
    /\ pc = "except"
    /\ pending' = Returned(ErrorRecord(pending.exc))
    /\ pc' = "finally"
    /\ UNCHANGED <<executor, lastCtor, fs, nextTemp, frag, temp_filename,
                   namespace, outcome>>
    /\ UNCHANGED history
    /\ UNCHANGED <<parserVars, selectVars, validatorVars>>

\* finally: os.remove(temp_filename).  os.remove of a missing file raises
\* FileNotFoundError, which replaces the pending return value or exception.
FinallyClause ==
    /\ pc = "finally"
    /\ IF temp_filename \in fs
       THEN /\ fs' = fs \ {temp_filename}
            /\ outcome' = pending
       ELSE /\ UNCHANGED fs
            /\ outcome' = Raised("FileNotFoundError", "No such file or directory")
    /\ pc' = "idle"
    /\ UNCHANGED <<executor, lastCtor, nextTemp, frag, temp_filename,
                   namespace, pending>>
    /\ UNCHANGED history
    /\ UNCHANGED <<parserVars, selectVars, validatorVars>>

SolveModel == \E m \in Fragments : StartSolveModel(m)

\* ------------------------------------------------------------------- text

\* the characters \s matches, among those the model uses
Whitespace == {" ", "\n", "\t"}

\* the literal lit occurs in s at index i
IsPrefixAt(s, i, lit) ==
    /\ i >= 1
    /\ i + Len(lit) - 1 <= Len(s)
    /\ \A k \in 1..Len(lit) : s[i + k - 1] = lit[k]

\* sub in s (Python's substring test)
Contains(s, sub) == \E i \in 1..(Len(s) + 1) : IsPrefixAt(s, i, sub)

SetMin(S) == CHOOSE x \in S : \A y \in S : x <= y
SetMax(S) == CHOOSE x \in S : \A y \in S : x >= y

\* first index >= j of s that holds no whitespace (Len(s) + 1 when none)
WsEnd(s, j) ==
    SetMin({k \in j..(Len(s) + 1) : k = Len(s) + 1 \/ s[k] \notin Whitespace})

\* last index of the run of non-newline characters that starts at p
LineEnd(s, p) ==
    SetMin({k \in p..(Len(s) + 1) : k = Len(s) + 1 \/ s[k] = "\n"}) - 1

\* str.lower() on one character
LowerChar(c) ==
    CASE c = "P" -> "p"
      [] c = "Y" -> "y"
      [] c = "O" -> "o"
      [] c = "M" -> "m"
      [] OTHER -> c

\* str.lower() on text
LowerText(s) == [i \in DOMAIN s |-> LowerChar(s[i])]

\* str.strip()
Strip(s) ==
    LET keep == {i \in DOMAIN s : s[i] \notin Whitespace} IN
    IF keep = {} THEN <<>> ELSE SubSeq(s, SetMin(keep), SetMax(keep))

\* re.findall of a pattern that is a literal: the non-overlapping occurrences
\* of lit in s from index i on, left to right
RECURSIVE FindAllLiteral(_, _, _)
FindAllLiteral(lit, s, i) ==
    IF i + Len(lit) - 1 > Len(s) THEN <<>>
    ELSE IF IsPrefixAt(s, i, lit)
         THEN <<lit>> \o FindAllLiteral(lit, s, i + Len(lit))
         ELSE FindAllLiteral(lit, s, i + 1)

\* ----------------------------------------------------------------- parser

\* the character U+0060 (grave accent), which a TLA+ string cannot hold
Backtick == "GRAVE"

\* pattern: six grave accents, no group
FencePattern == <<Backtick, Backtick, Backtick, Backtick, Backtick, Backtick>>

\* OptimizationModelParser.extract_code_blocks
extract_code_blocks(t) ==
    LET blocks == FindAllLiteral(FencePattern, t, 1) IN
    IF blocks = <<>> THEN <<t>> ELSE blocks

\* a max() that also replaces its candidate by an item of equal key
BetterOrEqual(item, best) == Len(item) >= Len(best)

\* max() replaces its candidate only by an item whose key is greater
Better(item, best) == Len(item) > Len(best)

RECURSIVE MaxFrom(_, _, _)
MaxFrom(blocks, i, best) ==
    IF i > Len(blocks) THEN best
    ELSE MaxFrom(blocks, i + 1,
                 IF Better(blocks[i], best) THEN blocks[i] ELSE best)

\* max(code_blocks, key=len); max of an empty list raises ValueError
MaxByLen(blocks) ==
    IF blocks = <<>>
    THEN Raised("ValueError", "max() arg is an empty sequence")
    ELSE Returned(MaxFrom(blocks, 2, blocks[1]))

ImportKeyword == <<"i", "m", "p", "o", "r", "t">>
ModelKeyword == <<"m", "o", "d", "e", "l">>
ConcreteModelCall == <<"p", "y", "o", ".", "C", "o", "n", "c", "r", "e", "t", "e", "M",
      "o", "d", "e", "l", "(", ")">>

\* re.findall(r'import\s+([^\n]+)', code) from index i on: \s+ takes the
\* whitespace run and gives back just enough for [^\n]+ to match
RECURSIVE FindImports(_, _)
FindImports(s, i) ==
    IF i > Len(s) THEN <<>>
    ELSE IF IsPrefixAt(s, i, ImportKeyword)
         THEN LET j == i + Len(ImportKeyword)
                  k == WsEnd(s, j)
                  starts == {q \in (j + 1)..k : q <= Len(s) /\ s[q] # "\n"}
              IN  IF starts = {} THEN FindImports(s, i + 1)
                  ELSE LET p == SetMax(starts)
                           e == LineEnd(s, p)
                       IN  <<SubSeq(s, p, e)>> \o FindImports(s, e + 1)
         ELSE FindImports(s, i + 1)

\* re.search(r'model\s*=\s*pyo\.ConcreteModel\(\)', code)
HasConcreteModel(s) ==
    \E i \in 1..Len(s) :
        /\ IsPrefixAt(s, i, ModelKeyword)
        /\ LET a == WsEnd(s, i + Len(ModelKeyword)) IN
           /\ a <= Len(s)
           /\ s[a] = "="
           /\ IsPrefixAt(s, WsEnd(s, a + 1), ConcreteModelCall)

\* OptimizationModelParser._parse_pyomo_model
parse_pyomo_model(c) ==
    LET imports == FindImports(c, 1) IN
    [raw_code |-> c,
     imports |-> [i \in DOMAIN imports |-> Strip(imports[i])],
     sets |-> <<>>,
     parameters |-> <<>>,
     variables |-> <<>>,
     objective |-> "None",
     constraints |-> <<>>,
     solver |-> "None",
     model_type |-> IF HasConcreteModel(c) THEN "concrete" ELSE "abstract"]

\* OptimizationModelParser._parse_pulp_model
parse_pulp_model(c) ==
    [raw_code |-> c,
     imports |-> <<>>,
     variables |-> <<>>,
     objective_sense |-> "None",
     constraints |-> <<>>,
     solver |-> "None"]

\* OptimizationModelParser.parse_to_model
parse_to_model(t, fw) ==
    LET best == MaxByLen(extract_code_blocks(t)) IN
    IF best.kind = "raise" THEN best
    ELSE IF Lower(fw) = "pyomo" THEN Returned(parse_pyomo_model(best.value))
    ELSE IF Lower(fw) = "pulp" THEN Returned(parse_pulp_model(best.value))
    ELSE Raised("ValueError", "Unsupported framework")

\* framework names a caller may pass
FrameworkNames == {"pyomo", "Pyomo", "pulp", "PuLP", "scipy", ""}

\* longest text over the fence alphabet
MaxTextLen == 7

\* texts with real model code in them
SampleTexts ==
    { <<"i", "m", "p", "o", "r", "t", " ", "p", "y", "o", "m", "o", ".",
            "e", "n", "v", "i", "r", "o", "n", " ", "a", "s", " ", "p",
            "y", "o", "\n", "m", "o", "d", "e", "l", " ", "=", " ", "p",
            "y", "o", ".", "C", "o", "n", "c", "r", "e", "t", "e", "M",
            "o", "d", "e", "l", "(", ")">>,
      <<Backtick, Backtick, Backtick, "\n", "i", "m", "p", "o", "r", "t", " ", "p", "u",
            "l", "p", "\n", Backtick, Backtick, Backtick>>,
      <<Backtick, Backtick, Backtick, Backtick, Backtick, Backtick, "x", Backtick, Backtick, Backtick, Backtick, Backtick, Backtick>>,
      <<"i", "m", "p", "o", "r", "t", " ", " ", "\n", "\n", "i", "m", "p",
            "o", "r", "t", " ", "\n", " ", "x">>,
      <<"m", "o", "d", "e", "l", "=", "p", "y", "o", ".", "C", "o", "n",
            "c", "r", "e", "t", "e", "M", "o", "d", "e", "l", "(", ")",
            "\n", "i", "m", "p", "o", "r", "t", " ", "P", "Y", "O", "M",
            "O", " ", " ">> }

\* the texts the parser is given
Texts ==
    UNION {[1..n -> {Backtick, "x"}] : n \in 0..MaxTextLen} \cup SampleTexts

ExtractCodeBlocks ==
    /\ parseOp' = "extract_code_blocks"
    /\ parseOutcome' = Returned(extract_code_blocks(text))
    /\ UNCHANGED text
    /\ UNCHANGED <<solverVars, selectVars, validatorVars>>

ParseToModel ==
    /\ \E fw \in FrameworkNames :
          /\ parseOp' = <<"parse_to_model", fw>>
          /\ parseOutcome' = parse_to_model(text, fw)
    /\ UNCHANGED text
    /\ UNCHANGED <<solverVars, selectVars, validatorVars>>

\* ------------------------------------------------------ fragment selection

\* fragments in one list
MaxBlocks == 3

\* the fragments a list is made of: lengths 0, 1, 1, 2, 2
FragmentTexts == {<<>>, <<"a">>, <<"b">>, <<"a", "b">>, <<"b", "a">>}

SelectFragment ==
    /\ code' = MaxByLen(code_blocks)
    /\ UNCHANGED code_blocks
    /\ UNCHANGED <<solverVars, parserVars, validatorVars>>

\* --------------------------------------------------------------- validator

PyomoWord == <<"p", "y", "o", "m", "o">>

\* model_components.get("imports", [])
GetImports(mc) == IF "imports" \in DOMAIN mc THEN mc.imports ELSE <<>>

\* ModelValidator._validate_pyomo_model
validate_pyomo_model(mc) ==
    LET imports == GetImports(mc)
        found == \E i \in DOMAIN imports :
                    Contains(LowerText(imports[i]), PyomoWord)
        issues == IF found THEN <<>> ELSE <<"Missing Pyomo import">>
    IN  Returned(<<Len(issues) = 0, issues>>)

\* ModelValidator.validate_model.  The class defines no _validate_pulp_model,
\* so the pulp branch fails on the attribute lookup.
validate_model(mc, fw) ==
    IF Lower(fw) = "pyomo" THEN validate_pyomo_model(mc)
    ELSE IF Lower(fw) = "pulp"
         THEN Raised("AttributeError",
                     "'ModelValidator' object has no attribute '_validate_pulp_model'")
         ELSE Returned(<<FALSE, <<"Unsupported framework: " \o fw>> >>)

\* entries of an imports list
MaxImports == 2

ImportStrings ==
    { <<"p", "y", "o", "m", "o", ".", "e", "n", "v", "i", "r", "o", "n", " ", "a", "s", " ", "p", "y", "o">>,
      <<"P", "Y", "O", "M", "O">>,
      <<"n", "u", "m", "p", "y">>,
      <<"p", "y", "o", "m">> }

ImportLists == UNION {[1..n -> ImportStrings] : n \in 0..MaxImports}

\* the Structural Facts records validate_model is given: what the parser
\* makes of the sample texts, both record shapes with every imports list, and
\* a record without an imports key
FactsInputs ==
    {parse_pyomo_model(t) : t \in SampleTexts}
      \cup {parse_pulp_model(t) : t \in SampleTexts}
      \cup {[parse_pyomo_model(<<>>) EXCEPT !.imports = il] : il \in ImportLists}
      \cup {[parse_pulp_model(<<>>) EXCEPT !.imports = il] : il \in ImportLists}
      \cup {[raw_code |-> <<>>]}

ValidateModel ==
    /\ validateOutcome' = validate_model(model_components, framework)
    /\ UNCHANGED <<model_components, framework>>
    /\ UNCHANGED <<solverVars, parserVars, selectVars>>

\* ------------------------------------------------------- the specifications

SolverIdle ==
    /\ executor = NoExecutor
    /\ lastCtor = Nothing
    /\ fs = {}
    /\ nextTemp = 1
    /\ pc = "idle"
    /\ frag = Nothing
    /\ temp_filename = 0
    /\ namespace = {}
    /\ pending = Nothing
    /\ outcome = Nothing
    /\ history = [names |-> {}, files |-> {}]

ParserIdle ==
    /\ text = <<>>
    /\ parseOp = "none"
    /\ parseOutcome = Nothing

SelectIdle ==
    /\ code_blocks = <<>>
    /\ code = Nothing

ValidatorIdle ==
    /\ model_components = Nothing
    /\ framework = "pyomo"
    /\ validateOutcome = Nothing

\* the executors: construction and solve_model
Init == SolverIdle /\ ParserIdle /\ SelectIdle /\ ValidatorIdle

Next ==
    \/ ConstructPuLP
    \/ ConstructPyomo
    \/ SolveModel
    \/ WriteFragment
    \/ ExecFragment
    \/ CheckModel
    \/ SolveAndProcess
    \/ ExceptClause
    \/ FinallyClause

Spec == Init /\ [][Next]_vars

\* the parser on every text
InitParser ==
    /\ text \in Texts
    /\ parseOp = "none"
    /\ parseOutcome = Nothing
    /\ SolverIdle /\ SelectIdle /\ ValidatorIdle

NextParser == ExtractCodeBlocks \/ ParseToModel

SpecParser == InitParser /\ [][NextParser]_vars

\* fragment selection on every list of fragments
InitSelect ==
    /\ code_blocks \in UNION {[1..n -> FragmentTexts] : n \in 0..MaxBlocks}
    /\ code = Nothing
    /\ SolverIdle /\ ParserIdle /\ ValidatorIdle

NextSelect == SelectFragment

SpecSelect == InitSelect /\ [][NextSelect]_vars

\* the validator on every facts record and framework name
InitValidator ==
    /\ model_components \in FactsInputs
    /\ framework \in FrameworkNames
    /\ validateOutcome = Nothing
    /\ SolverIdle /\ ParserIdle /\ SelectIdle

NextValidator == ValidateModel

SpecValidator == InitValidator /\ [][NextValidator]_vars

\* ------------------------------------------------- properties of the solver

\* a solve_model call has ended
CallEnded == pc = "idle" /\ outcome.kind # "none"

\* C1: whatever the fragment does when executed, solve_model returns a
\* record to its caller and lets no failure propagate out of the call.
C1_SolveModelAlwaysReturns ==
    (CallEnded /\ frag.encodable) => outcome.kind = "return"

\* C2: once a solve_model call has ended, on whatever path, no temporary
\* file created by a call remains on the filesystem.
C2_NoTempFileRemains == pc = "idle" => fs = {}

\* the name of the solver-metadata key of each executor's record
MetadataKey(kind) == IF kind = "pulp" THEN "solver_used" ELSE "solver_time"

\* C3: every returned record has the five top-level keys, and a failed
\* record carries variables and constraints as empty mappings.
C3_RecordHasFiveKeys ==
    (CallEnded /\ outcome.kind = "return") =>
        /\ {"status", "objective_value", "variables", "constraints",
            MetadataKey(executor.kind)} \subseteq DOMAIN outcome.value
        /\ outcome.value.status = "error" =>
              /\ outcome.value.variables = <<>>
              /\ outcome.value.constraints = <<>>

\* C5: a fragment whose execution completes without binding model gives an
\* error record with a non-empty message, and nothing is raised.
C5_MissingModelGivesErrorRecord ==
    (CallEnded /\ frag.encodable /\ frag.end = "completes" /\ ~frag.bindsModel)
        => /\ outcome.kind = "return"
           /\ outcome.value.status = "error"
           /\ outcome.value.message # ""

\* the back-ends the specification names for each framework
SupportedBackends(kind) ==
    IF kind = "pulp" THEN SOLVER_MAP
    ELSE {"cbc", "highs", "glpk", "gurobi", "cplex"}

\* the documented default back-end of each framework
DefaultBackend(kind) == IF kind = "pulp" THEN "cbc" ELSE "highs"

\* C8: construction with a solver name outside the framework's registry
\* fails, and no executor with an unregistered solver name exists.
C8_UnregisteredSolverRejected ==
    /\ executor.kind # "none" =>
          Lower(executor.solver_name) \in SupportedBackends(executor.kind)
    /\ (lastCtor.kind # "none"
        /\ Lower(lastCtor.solver_name) \notin SupportedBackends(lastCtor.kind))
          => lastCtor.result.kind = "raise"

\* C9: construction with a recognized but unavailable solver succeeds and
\* leaves the executor on the default back-end.
C9_UnavailableSolverDowngraded ==
    (/\ lastCtor.kind # "none"
     /\ Lower(lastCtor.solver_name) \in SupportedBackends(lastCtor.kind)
     /\ lastCtor.probe # "true")
        => /\ lastCtor.result.kind = "none"
           /\ executor.kind = lastCtor.kind
           /\ executor.solver_name = DefaultBackend(lastCtor.kind)

\* the executor object its construction built
ObjectBuilt ==
    IF lastCtor.kind = "pulp"
    THEN PulpInit(lastCtor.solver_name, lastCtor.probe).object
    ELSE PyomoInit(lastCtor.solver_name, lastCtor.probe).object

\* C11, the frame: solve_model leaves the executor as construction built it,
\* the namespace of a call holds the seeded names and what its own fragment
\* bound, and a call's temporary file is none that an earlier call staged.
C11_FrameHolds ==
    /\ executor.kind # "none" => executor = ObjectBuilt
    /\ pc \in {"check", "solve", "except", "finally"} =>
          NamesBoundBy(executor.kind, namespace)
              = (IF frag.bindsModel THEN {"model"} ELSE {})
    /\ nextTemp > 1 => temp_filename \notin history.files

\* C11, the consequence: after an earlier call bound model, a fragment that
\* completes without binding model still gets an error record.
C11_LaterCallErrorRecord ==
    (CallEnded /\ "model" \in history.names
     /\ frag.encodable /\ frag.end = "completes" /\ ~frag.bindsModel)
        => /\ outcome.kind = "return"
           /\ outcome.value.status = "error"

\* C11: across solve_model calls on one executor no state crosses calls
\* (fresh namespace, own temporary file, solver_name unchanged), so a later
\* fragment that binds no model still yields an error record.
C11_NoStateCrossesCalls == C11_FrameHolds /\ C11_LaterCallErrorRecord

\* a second call that binds no model ended after a first call bound model
C11_LaterCallReached ==
    /\ CallEnded
    /\ "model" \in history.names
    /\ frag.encodable /\ frag.end = "completes" /\ ~frag.bindsModel
    /\ ~frag.deletesFile

\* ------------------------------------------------- properties of the parser

Fence == <<Backtick, Backtick, Backtick>>

\* indices >= i of s where a fence starts
FencesFrom(s, i) == {k \in i..Len(s) : IsPrefixAt(s, k, Fence)}

\* the contents of the fenced code blocks of s from index i on, in document
\* order: each block runs from an opening fence to the next closing fence
RECURSIVE FencedContents(_, _)
FencedContents(s, i) ==
    IF FencesFrom(s, i) = {} THEN <<>>
    ELSE LET a == SetMin(FencesFrom(s, i)) IN
         IF FencesFrom(s, a + 3) = {} THEN <<>>
         ELSE LET b == SetMin(FencesFrom(s, a + 3)) IN
              <<SubSeq(s, a + 3, b - 1)>> \o FencedContents(s, b + 3)

\* C4: extract_code_blocks returns the enclosed contents of the fenced blocks
\* in document order, or the one-element list of the whole text when there is
\* no fenced block; it never raises and never returns an empty list.
C4_ExtractReturnsFencedContents ==
    parseOp = "extract_code_blocks" =>
        /\ parseOutcome.kind = "return"
        /\ parseOutcome.value # <<>>
        /\ parseOutcome.value =
              IF FencedContents(text, 1) = <<>> THEN <<text>>
              ELSE FencedContents(text, 1)

\* C10: fragment selection returns the element of greatest length, and among
\* several of that length the one that occurs first.
C10_SelectsFirstLongest ==
    (code.kind # "none" /\ code_blocks # <<>>) =>
        /\ code.kind = "return"
        /\ \E i \in DOMAIN code_blocks :
              /\ code.value = code_blocks[i]
              /\ \A j \in DOMAIN code_blocks :
                    Len(code_blocks[j]) <= Len(code_blocks[i])
              /\ \A j \in 1..(i - 1) :
                    Len(code_blocks[j]) < Len(code_blocks[i])

\* a selection was made from a list whose greatest length is shared by two
\* different fragments, and the earlier one was returned
C10_TieWitness ==
    /\ code.kind = "return"
    /\ \E i, j \in DOMAIN code_blocks :
          /\ i < j
          /\ code_blocks[i] # code_blocks[j]
          /\ Len(code_blocks[i]) = Len(code_blocks[j])
          /\ \A k \in DOMAIN code_blocks :
                Len(code_blocks[k]) <= Len(code_blocks[i])
          /\ \A k \in 1..(i - 1) : Len(code_blocks[k]) < Len(code_blocks[i])
          /\ code.value = code_blocks[i]

\* ---------------------------------------------- properties of the validator

SupportedFrameworks == {"pyomo", "pulp"}

\* C6: validate_model with a framework name outside pyomo and pulp raises to
\* its caller, as parse_to_model does, and returns no verdict.
C6_UnknownFrameworkRaises ==
    (validateOutcome.kind # "none" /\ Lower(framework) \notin SupportedFrameworks)
        => /\ validateOutcome.kind = "raise"
           /\ validateOutcome = parse_to_model(<<>>, framework)

\* C7: for each supported framework validate_model returns a verdict whose
\* flag is true exactly when its issue list is empty; pyomo facts with an
\* empty imports list give a false flag and the missing-import issue.
C7_VerdictFlagIffNoIssues ==
    (validateOutcome.kind # "none" /\ Lower(framework) \in SupportedFrameworks)
        => /\ validateOutcome.kind = "return"
           /\ validateOutcome.value[1] = (validateOutcome.value[2] = <<>>)
           /\ (Lower(framework) = "pyomo" /\ GetImports(model_components) = <<>>)
                 => /\ validateOutcome.value[1] = FALSE
                    /\ \E i \in DOMAIN validateOutcome.value[2] :
                          validateOutcome.value[2][i] = "Missing Pyomo import"

====
